---- MODULE Spec2Model ----
(***************************************************************************)
(* A model of the three-rotor Enigma machine of enigma.py: the plugboard,  *)
(* the rotors, the reflector, the stepping mechanism and the machine's     *)
(* construction, encrypt and reset operations.                             *)
(*                                                                         *)
(* A character is its Unicode code point ('A' = 65 .. 'Z' = 90), a string  *)
(* is a sequence of characters, a Python list is a sequence.               *)
(***************************************************************************)
EXTENDS Integers, Sequences, FiniteSets, TLC

VARIABLES
    status,      \* "none" before construction, "ok" / "error" after it
    args,        \* the arguments the constructor was called with
    rotors,      \* self.rotors: a list of rotor objects, left to right
    plugboard,   \* self.plugboard.wiring
    reflector,   \* self.reflector.wiring
    last,        \* the last call made on the machine: its name and argument
    enc,         \* the last encrypt call: text, start windows, result, end windows
    origin,      \* the windows at construction or at the last reset
    presses,     \* the number of keypresses (_step_rotors calls) since origin
    calls        \* the number of encrypt and reset calls made

vars == <<status, args, rotors, plugboard, reflector, last, enc,
          origin, presses, calls>>

----------------------------------------------------------------------------
(* Constant tables, enigma.py lines 35-48 *)

\* "ABCDEFGHIJKLMNOPQRSTUVWXYZ"
ALPHABET == [i \in 1..26 |-> 64 + i]

\* name |-> <<wiring, notch letter>>
ROTOR_WIRINGS ==
    [ I   |-> << <<69, 75, 77, 70, 76, 71, 68, 81, 86, 90, 78, 84, 79,
                   87, 89, 72, 88, 85, 83, 80, 65, 73, 66, 82, 67, 74>>, 81 >>,
      II  |-> << <<65, 74, 68, 75, 83, 73, 82, 85, 88, 66, 76, 72, 87,
                   84, 77, 67, 81, 71, 90, 78, 80, 89, 70, 86, 79, 69>>, 69 >>,
      III |-> << <<66, 68, 70, 72, 74, 76, 67, 80, 82, 84, 88, 86, 90,
                   78, 89, 69, 73, 87, 71, 65, 75, 77, 85, 83, 81, 79>>, 86 >>,
      IV  |-> << <<69, 83, 79, 86, 80, 90, 74, 65, 89, 81, 85, 73, 82,
                   72, 88, 76, 78, 70, 84, 71, 75, 68, 67, 77, 87, 66>>, 74 >>,
      V   |-> << <<86, 90, 66, 82, 71, 73, 84, 89, 85, 80, 83, 68, 78,
                   72, 76, 88, 65, 87, 77, 74, 81, 79, 70, 69, 67, 75>>, 90 >> ]

\* the table with the first two letters of reflector B exchanged
REFLECTORS_miswired ==
    [ B |-> <<82, 89, 85, 72, 81, 83, 76, 68, 80, 88, 78, 71, 79,
              75, 77, 73, 69, 66, 70, 90, 67, 87, 86, 74, 65, 84>>,
      C |-> <<70, 86, 80, 74, 73, 65, 79, 89, 69, 68, 82, 90, 88,
              87, 71, 67, 84, 75, 85, 81, 83, 66, 78, 77, 72, 76>> ]

REFLECTORS ==
    [ B |-> <<89, 82, 85, 72, 81, 83, 76, 68, 80, 88, 78, 71, 79,
              75, 77, 73, 69, 66, 70, 90, 67, 87, 86, 74, 65, 84>>,
      C |-> <<70, 86, 80, 74, 73, 65, 79, 89, 69, 68, 82, 90, 88,
              87, 71, 67, 84, 75, 85, 81, 83, 66, 78, 77, 72, 76>> ]

----------------------------------------------------------------------------
(* Python built-ins the code relies on, on the characters the model uses:  *)
(* A-Z, a-z, ASCII non-letters, 'é' (233) / 'É' (201), 'ß' (223),          *)
(* 'ⅰ' (8560) / 'Ⅰ' (8544) and U+0345 (837) / 'Ι' (921).                  *)

\* str.upper() of a one-character string: a string of one or two characters
upper_char(c) ==
    IF c \in 97..122 THEN <<c - 32>>
    ELSE IF c = 233 THEN <<201>>
    ELSE IF c = 223 THEN <<83, 83>>
    ELSE IF c = 8560 THEN <<8544>>
    ELSE IF c = 837 THEN <<921>>
    ELSE <<c>>

\* str.upper() of a string
RECURSIVE upper(_)
upper(text) ==
    IF text = <<>> THEN <<>> ELSE upper_char(Head(text)) \o upper(Tail(text))

\* str.isalpha() of a one-character string
isalpha(c) == c \in (65..90) \cup (97..122) \cup {201, 233, 223, 921}

\* seq[i] of a Python list or string raises IndexError outside -len..len-1
InRange(seq, i) == i >= 0 - Len(seq) /\ i < Len(seq)

\* seq[i] of a Python list or string, a negative i counting from the end
Item(seq, i) == IF i >= 0 THEN seq[i + 1] ELSE seq[Len(seq) + i + 1]

----------------------------------------------------------------------------
(* Helper utilities, enigma.py lines 55-59 *)

\* ord(c.upper()) - ord('A'), for a character whose upper case is one character
char_to_idx(c) == upper_char(c)[1] - 65

idx_to_char(i) == ALPHABET[(i % 26) + 1]

----------------------------------------------------------------------------
(* Plugboard, enigma.py lines 66-89 *)

\* Plugboard.__init__ comparing the letters as given, without upper()
RECURSIVE PlugboardLoopAsGiven(_, _, _, _)
PlugboardLoopAsGiven(pairs, k, used, wiring) ==
    IF k > Len(pairs) THEN [err |-> "", wiring |-> wiring]
    ELSE LET a == pairs[k][1]
             b == pairs[k][2]
         IN IF a = b THEN [err |-> "ValueError", wiring |-> wiring]
            ELSE IF a \in used \/ b \in used
                 THEN [err |-> "ValueError", wiring |-> wiring]
            ELSE PlugboardLoopAsGiven(pairs, k + 1, used \cup {a, b},
                     [[wiring EXCEPT ![char_to_idx(a) + 1] = b]
                              EXCEPT ![char_to_idx(b) + 1] = a])

\* the loop wiring each pair in one direction only: a to b, never b to a
RECURSIVE PlugboardLoopOneWay(_, _, _, _)
PlugboardLoopOneWay(pairs, k, used, wiring) ==
    IF k > Len(pairs) THEN [err |-> "", wiring |-> wiring]
    ELSE LET a == upper_char(pairs[k][1])[1]
             b == upper_char(pairs[k][2])[1]
         IN IF a = b THEN [err |-> "ValueError", wiring |-> wiring]
            ELSE IF a \in used \/ b \in used
                 THEN [err |-> "ValueError", wiring |-> wiring]
            ELSE PlugboardLoopOneWay(pairs, k + 1, used \cup {a, b},
                     [wiring EXCEPT ![char_to_idx(a) + 1] = b])

\* the loop of Plugboard.__init__ from pair k on
RECURSIVE PlugboardLoop(_, _, _, _)
PlugboardLoop(pairs, k, used, wiring) ==
    IF k > Len(pairs) THEN [err |-> "", wiring |-> wiring]
    ELSE LET a == upper_char(pairs[k][1])[1]
             b == upper_char(pairs[k][2])[1]
         IN IF a = b THEN [err |-> "ValueError", wiring |-> wiring]
            ELSE IF a \in used \/ b \in used
                 THEN [err |-> "ValueError", wiring |-> wiring]
            ELSE PlugboardLoop(pairs, k + 1, used \cup {a, b},
                     [[wiring EXCEPT ![char_to_idx(a) + 1] = b]
                              EXCEPT ![char_to_idx(b) + 1] = a])

Plugboard(pairs) == PlugboardLoop(pairs, 1, {}, ALPHABET)

\* a plugboard that hands every letter through, whatever its wiring
PlugboardForwardUnplugged(wiring, c) == c

\* Plugboard.forward on the wiring list
PlugboardForward(wiring, c) == Item(wiring, char_to_idx(c))

----------------------------------------------------------------------------
(* Rotor, enigma.py lines 96-151 *)

\* the loop of Rotor._invert from index i on (i counts from 1)
RECURSIVE InvertLoop(_, _, _)
InvertLoop(wiring, i, inv) ==
    IF i > Len(wiring) THEN inv
    ELSE InvertLoop(wiring, i + 1,
                    [inv EXCEPT ![char_to_idx(wiring[i]) + 1] = ALPHABET[i]])

\* '' is modelled as 0
invert(wiring) == InvertLoop(wiring, 1, [i \in 1..26 |-> 0])

Rotor(name, position, ring) ==
    [ name     |-> name,
      wiring   |-> ROTOR_WIRINGS[name][1],
      reverse  |-> invert(ROTOR_WIRINGS[name][1]),
      notch    |-> ROTOR_WIRINGS[name][2],
      position |-> char_to_idx(position),
      ring     |-> char_to_idx(ring) ]

is_at_notch(rotor) == Item(ALPHABET, rotor.position) = rotor.notch

\* a step that turns the ring setting along with the window
step_turning_ring(rotor) ==
    [rotor EXCEPT !.position = (rotor.position + 1) % 26,
                  !.ring = (rotor.ring + 1) % 26]

\* a step that turns the rotor the other way and counts on below A
step_back(rotor) == [rotor EXCEPT !.position = rotor.position - 1]

step(rotor) == [rotor EXCEPT !.position = (rotor.position + 1) % 26]

\* _encode returning the contact of the wiring without undoing the offset
encode_keep_offset(rotor, wiring, signal) ==
    LET offset      == rotor.position - rotor.ring
        shifted_in  == (signal + offset) % 26
        output_char == Item(wiring, shifted_in)
    IN  char_to_idx(output_char) % 26

encode(rotor, wiring, signal) ==
    LET offset      == rotor.position - rotor.ring
        shifted_in  == (signal + offset) % 26
        output_char == Item(wiring, shifted_in)
    IN  (char_to_idx(output_char) - offset) % 26

forward(rotor, signal) == encode(rotor, rotor.wiring, signal)

\* backward looking up the wiring instead of its inverse
backward_by_wiring(rotor, signal) == encode(rotor, rotor.wiring, signal)

backward(rotor, signal) == encode(rotor, rotor.reverse, signal)

----------------------------------------------------------------------------
(* Reflector, enigma.py lines 158-173 *)

\* a reflector that hands the signal back on the contact it came in on
reflect_straight(wiring, signal) == char_to_idx(Item(ALPHABET, signal))

reflect(wiring, signal) == char_to_idx(Item(wiring, signal))

----------------------------------------------------------------------------
(* EnigmaMachine, enigma.py lines 180-282 *)

Min(a, b) == IF a <= b THEN a ELSE b

\* the list comprehension of __init__ over zip(rotor_names, positions,
\* ring_settings), from element k on; an unknown name ends it in KeyError
RECURSIVE RotorsLoop(_, _, _, _, _)
RotorsLoop(rotor_names, positions, ring_settings, k, acc) ==
    IF k > Min(Len(rotor_names), Min(Len(positions), Len(ring_settings)))
    THEN [err |-> "", rotors |-> acc]
    ELSE IF rotor_names[k] \notin DOMAIN ROTOR_WIRINGS
         THEN [err |-> "KeyError", rotors |-> <<>>]
    ELSE RotorsLoop(rotor_names, positions, ring_settings, k + 1,
             Append(acc, Rotor(rotor_names[k], positions[k], ring_settings[k])))

\* EnigmaMachine.__init__: the error it raises ("" for none) and the fields
EnigmaMachine(a) ==
    LET none == [rotors |-> <<>>, plugboard |-> <<>>, reflector |-> <<>>]
        rs   == RotorsLoop(a.rotor_names, a.positions, a.ring_settings, 1, <<>>)
        pb   == Plugboard(a.plugboard)
    IN  IF Len(a.rotor_names) # 3 THEN [err |-> "ValueError"] @@ none
        ELSE IF rs.err # "" THEN [err |-> rs.err] @@ none
        ELSE IF pb.err # "" THEN [err |-> pb.err] @@ none
        ELSE IF a.reflector \notin DOMAIN REFLECTORS
             THEN [err |-> "KeyError"] @@ none
        ELSE [err |-> "", rotors |-> rs.rotors, plugboard |-> pb.wiring,
              reflector |-> REFLECTORS[a.reflector]]

\* _step_rotors with the right rotor's notch tested in an if of its own, so
\* that the middle rotor steps twice when both notches are engaged
step_rotors_two_ifs(rs) ==
    LET left   == rs[1]
        mid    == rs[2]
        right  == rs[3]
        first  == IF is_at_notch(mid) THEN <<step(left), step(mid), right>>
                  ELSE <<left, mid, right>>
        second == IF is_at_notch(right)
                  THEN <<first[1], step(first[2]), right>> ELSE first
    IN  [second EXCEPT ![3] = step(second[3])]

\* _step_rotors as an odometer: the middle rotor at its notch carries the
\* left rotor but does not step itself
step_rotors_odometer(rs) ==
    LET left   == rs[1]
        mid    == rs[2]
        right  == rs[3]
        carry  == IF is_at_notch(mid) THEN <<step(left), mid, right>>
                  ELSE <<left, mid, right>>
        turned == IF is_at_notch(right)
                  THEN <<carry[1], step(carry[2]), right>> ELSE carry
    IN  [turned EXCEPT ![3] = step(turned[3])]

\* _step_rotors on a list of three rotors
step_rotors(rs) ==
    LET left   == rs[1]
        mid    == rs[2]
        right  == rs[3]
        turned == IF is_at_notch(mid) THEN <<step(left), step(mid), right>>
                  ELSE IF is_at_notch(right) THEN <<left, step(mid), right>>
                  ELSE <<left, mid, right>>
    IN  [turned EXCEPT ![3] = step(turned[3])]

\* _encrypt_char: the rotors after it, the letter it returns and the error
\* it raises. Unpacking a list of other than three rotors raises ValueError
\* before any rotor steps; the plugboard lookup of a character beyond 'Z'
\* raises IndexError after the rotors have stepped.
encrypt_char(rs, pb, rf, c) ==
    IF Len(rs) # 3
    THEN [rotors |-> rs, out |-> 0, err |-> "ValueError", stepped |-> 0]
    ELSE LET st == step_rotors(rs)
         IN IF ~InRange(pb, char_to_idx(c))
            THEN [rotors |-> st, out |-> 0, err |-> "IndexError", stepped |-> 1]
            ELSE LET s0 == char_to_idx(PlugboardForward(pb, c))
                     s1 == forward(st[3], s0)
                     s2 == forward(st[2], s1)
                     s3 == forward(st[1], s2)
                     s4 == reflect(rf, s3)
                     s5 == backward(st[1], s4)
                     s6 == backward(st[2], s5)
                     s7 == backward(st[3], s6)
                 IN [rotors |-> st, out |-> PlugboardForward(pb, idx_to_char(s7)),
                     err |-> "", stepped |-> 1]

\* encrypt pressing a key for every character: a character that is not
\* alphabetic is kept in the result but the rotors step for it
RECURSIVE EncryptLoopStepAll(_, _, _, _, _, _, _)
EncryptLoopStepAll(rs, pb, rf, chars, k, result, stepped) ==
    IF k > Len(chars)
    THEN [rotors |-> rs, out |-> result, err |-> "", stepped |-> stepped]
    ELSE IF isalpha(chars[k])
         THEN LET r == encrypt_char(rs, pb, rf, chars[k])
              IN IF r.err # ""
                 THEN [rotors |-> r.rotors, out |-> <<>>, err |-> r.err,
                       stepped |-> stepped + r.stepped]
                 ELSE EncryptLoopStepAll(r.rotors, pb, rf, chars, k + 1,
                                         Append(result, r.out), stepped + r.stepped)
    ELSE EncryptLoopStepAll(IF Len(rs) = 3 THEN step_rotors(rs) ELSE rs, pb, rf,
                            chars, k + 1, Append(result, chars[k]), stepped)

\* the loop of encrypt over the upper-cased text, from character k on
RECURSIVE EncryptLoop(_, _, _, _, _, _, _)
EncryptLoop(rs, pb, rf, chars, k, result, stepped) ==
    IF k > Len(chars)
    THEN [rotors |-> rs, out |-> result, err |-> "", stepped |-> stepped]
    ELSE IF isalpha(chars[k])
         THEN LET r == encrypt_char(rs, pb, rf, chars[k])
              IN IF r.err # ""
                 THEN [rotors |-> r.rotors, out |-> <<>>, err |-> r.err,
                       stepped |-> stepped + r.stepped]
                 ELSE EncryptLoop(r.rotors, pb, rf, chars, k + 1,
                                  Append(result, r.out), stepped + r.stepped)
    ELSE EncryptLoop(rs, pb, rf, chars, k + 1, Append(result, chars[k]), stepped)

encrypt(rs, pb, rf, text) == EncryptLoop(rs, pb, rf, upper(text), 1, <<>>, 0)

\* reset taking ord(pos) - ord('A') of the letter as given, without upper()
reset_as_given(rs, positions) ==
    [k \in 1..Len(rs) |->
        IF k <= Len(positions)
        THEN [rs[k] EXCEPT !.position = positions[k] - 65]
        ELSE rs[k]]

\* reset: zip(self.rotors, positions) stops at the shorter list
reset(rs, positions) ==
    [k \in 1..Len(rs) |->
        IF k <= Len(positions)
        THEN [rs[k] EXCEPT !.position = char_to_idx(positions[k])]
        ELSE rs[k]]

\* the letters' indices in the windows, left to right
Windows(rs) == [k \in 1..Len(rs) |-> rs[k].position]

----------------------------------------------------------------------------
(* The calls made on the machine and their arguments *)

\* the most encrypt and reset calls made on one machine
MaxCalls == 3

\* the longest text drawn from CoreChars
MaxLen == 2

Cfg(n, p, r, pb, rf) ==
    [rotor_names |-> n, positions |-> p, ring_settings |-> r,
     plugboard |-> pb, reflector |-> rf]

\* constructor arguments of three catalog rotors, letters given in either case:
\* those of demo.py sections 1 and 2, of the __main__ block and of the class
\* docstring, and others with reflector C, a repeated rotor and four
\* positions and ring settings
ValidConfigs ==
    {
      Cfg(<<"I", "II", "III">>, <<65, 65, 65>>, <<65, 65, 65>>,
          <<>>, "B"),
      Cfg(<<"I", "II", "III">>, <<68, 69, 70>>, <<65, 65, 65>>,
          <<<<65, 90>>, <<66, 89>>>>, "B"),
      Cfg(<<"III", "IV", "II">>, <<71, 84, 78>>, <<67, 72, 70>>,
          <<<<65, 90>>, <<66, 88>>, <<67, 87>>, <<68, 86>>, <<69, 85>>, <<70, 84>>, <<71, 83>>, <<72, 82>>, <<73, 81>>, <<74, 80>>>>, "B"),
      Cfg(<<"I", "II", "III">>, <<65, 66, 67>>, <<68, 70, 71>>,
          <<<<65, 90>>, <<66, 89>>, <<67, 88>>>>, "B"),
      Cfg(<<"V", "I", "IV">>, <<122, 112, 105>>, <<98, 65, 122>>,
          <<<<101, 88>>, <<97, 113>>>>, "C"),
      Cfg(<<"II", "II", "II">>, <<69, 69, 69>>, <<90, 90, 90>>,
          <<>>, "C"),
      Cfg(<<"IV", "V", "I">>, <<89, 90, 80, 81>>, <<66, 67, 68, 69>>,
          <<<<107, 108>>>>, "B")
    }

\* those of demo.py sections 6 and 4
DemoConfigs ==
    {
      Cfg(<<"I", "II", "III">>, <<65, 68, 85>>, <<65, 65, 65>>,
          <<>>, "B"),
      Cfg(<<"I", "II", "III">>, <<65, 65, 65>>, <<65, 65, 65>>,
          <<<<69, 88>>>>, "B")
    }

\* three rotor names with fewer than three positions or ring settings
ShortConfigs ==
    {
      Cfg(<<"I", "II", "III">>, <<65, 65>>, <<65, 65, 65>>,
          <<>>, "B"),
      Cfg(<<"I", "II", "VI">>, <<65, 65>>, <<65, 65, 65>>,
          <<>>, "B"),
      Cfg(<<"I", "II", "III">>, <<65, 65, 65>>, <<>>,
          <<>>, "B")
    }

\* a wrong number of rotors, an unknown rotor or reflector, a bad plugboard
BadConfigs ==
    {
      Cfg(<<>>, <<65, 65, 65>>, <<65, 65, 65>>,
          <<>>, "B"),
      Cfg(<<"I", "II">>, <<65, 65, 65>>, <<65, 65, 65>>,
          <<>>, "B"),
      Cfg(<<"I", "II", "III", "IV">>, <<65, 65, 65, 65>>, <<65, 65, 65, 65>>,
          <<>>, "B"),
      Cfg(<<"I", "VI", "III">>, <<65, 65, 65>>, <<65, 65, 65>>,
          <<>>, "B"),
      Cfg(<<"I", "II", "VI">>, <<65, 65, 65>>, <<65, 65, 65>>,
          <<>>, "B"),
      Cfg(<<"I", "II", "III">>, <<65, 65, 65>>, <<65, 65, 65>>,
          <<>>, "A"),
      Cfg(<<"I", "II", "III">>, <<65, 65, 65>>, <<65, 65, 65>>,
          <<<<65, 97>>>>, "B"),
      Cfg(<<"I", "II", "III">>, <<65, 65, 65>>, <<65, 65, 65>>,
          <<<<65, 66>>, <<98, 67>>>>, "B"),
      Cfg(<<"I", "II", "III">>, <<65, 65>>, <<65, 65, 65>>,
          <<>>, "D")
    }

Configs == ValidConfigs \cup ShortConfigs \cup BadConfigs

SeqsUpTo(S, n) == UNION {[1..k -> S] : k \in 0..n}

\* 'b', ' '
CoreChars == {98, 32}

\* 'é', 'ß', 'ⅰ', U+0345
OtherChars == {233, 223, 8560, 837}

\* "AB CD", "ABCD", "bé A", "HELLO WORLD"
ExampleTexts ==
    { <<65, 66, 32, 67, 68>>, <<65, 66, 67, 68>>, <<98, 233, 32, 65>>,
      <<72, 69, 76, 76, 79, 32, 87, 79, 82, 76, 68>> }

\* every text of CoreChars up to MaxLen, the other characters alone, and the
\* texts of the examples
Texts ==
    SeqsUpTo(CoreChars, MaxLen) \cup {<<c>> : c \in OtherChars} \cup ExampleTexts

\* "mcZ", "QE" (two letters only)
ResetArgs == { <<109, 99, 90>>, <<81, 69>> }

NoEnc == [text |-> <<>>, start |-> <<>>, out |-> <<>>, err |-> "none", end |-> <<>>]

NoArgs == Cfg(<<>>, <<>>, <<>>, <<>>, "")

Init ==
    /\ status = "none"
    /\ args = NoArgs
    /\ rotors = <<>>
    /\ plugboard = <<>>
    /\ reflector = <<>>
    /\ last = [op |-> "none", arg |-> <<>>, err |-> ""]
    /\ enc = NoEnc
    /\ origin = <<>>
    /\ presses = 0
    /\ calls = 0

\* EnigmaMachine(**a)
Construct(a) ==
    /\ status = "none"
    /\ \E m \in {EnigmaMachine(a)} :
          /\ status' = IF m.err = "" THEN "ok" ELSE "error"
          /\ rotors' = m.rotors
          /\ plugboard' = m.plugboard
          /\ reflector' = m.reflector
          /\ last' = [op |-> "construct", arg |-> <<>>, err |-> m.err]
          /\ origin' = Windows(m.rotors)
    /\ args' = a
    /\ UNCHANGED <<enc, presses, calls>>

\* enigma.encrypt(text)
Encrypt(text) ==
    /\ status = "ok"
    /\ \E r \in {encrypt(rotors, plugboard, reflector, text)} :
          /\ rotors' = r.rotors
          /\ enc' = [text |-> text, start |-> Windows(rotors), out |-> r.out,
                     err |-> r.err, end |-> Windows(r.rotors)]
          /\ last' = [op |-> "encrypt", arg |-> text, err |-> r.err]
          /\ presses' = presses + r.stepped
    /\ calls' = calls + 1
    /\ UNCHANGED <<status, args, plugboard, reflector, origin>>

\* enigma.reset(positions)
Reset(positions) ==
    /\ status = "ok"
    /\ \E rs \in {reset(rotors, positions)} :
          /\ rotors' = rs
          /\ origin' = Windows(rs)
    /\ last' = [op |-> "reset", arg |-> positions, err |-> ""]
    /\ presses' = 0
    /\ calls' = calls + 1
    /\ UNCHANGED <<status, args, plugboard, reflector, enc>>

\* a caller encrypts a text of its own, or the text the last call returned
EncryptAny ==
    /\ calls < MaxCalls
    /\ \E text \in Texts \cup {enc.out} : Encrypt(text)

\* a caller resets to windows of its own, or to those the machine was built with
ResetAny ==
    /\ calls < MaxCalls
    /\ \E positions \in ResetArgs \cup {args.positions} : Reset(positions)

ConstructAny == \E a \in Configs : Construct(a)

Next == ConstructAny \/ EncryptAny \/ ResetAny

Spec == Init /\ [][Next]_vars

----------------------------------------------------------------------------
(* Single keys on a constructed machine: every letter A-Z, one key a call *)

\* the most keys pressed on one machine
MaxKeys == 27

\* the state right after EnigmaMachine(**a) returned a machine
Constructed(a) ==
    /\ status = "ok"
    /\ args = a
    /\ \E m \in {EnigmaMachine(a)} :
          /\ rotors = m.rotors
          /\ plugboard = m.plugboard
          /\ reflector = m.reflector
          /\ origin = Windows(m.rotors)
    /\ last = [op |-> "construct", arg |-> <<>>, err |-> ""]
    /\ enc = NoEnc
    /\ presses = 0
    /\ calls = 0

InitKeys == \E a \in ValidConfigs \cup DemoConfigs : Constructed(a)

\* enigma.encrypt(c) for one letter c
KeyPress ==
    /\ calls < MaxKeys
    /\ \E c \in 65..90 : Encrypt(<<c>>)

SpecKeys == InitKeys /\ [][KeyPress]_vars

----------------------------------------------------------------------------
(* The stepping mechanism alone, from every window state *)

\* the most keypresses followed from one window state
MaxSteps == 2

\* rotor triples whose notches all differ, and whose notches agree
StepNames ==
    { <<"I", "II", "III">>, <<"III", "IV", "II">>, <<"V", "I", "IV">>,
      <<"II", "V", "V">>, <<"IV", "IV", "IV">> }

\* a machine built with rotors n and windows l, m, r: the rotors are built
\* once for n and each window is set as Rotor.__init__ sets it
InitStep ==
    \E n \in StepNames :
    \E m0 \in {EnigmaMachine(Cfg(n, <<65, 65, 65>>, <<65, 65, 65>>, <<>>, "B"))} :
    \E l \in 65..90 : \E m \in 65..90 : \E r \in 65..90 :
        /\ status = "ok"
        /\ args = Cfg(n, <<l, m, r>>, <<65, 65, 65>>, <<>>, "B")
        /\ rotors = reset(m0.rotors, <<l, m, r>>)
        /\ plugboard = m0.plugboard
        /\ reflector = m0.reflector
        /\ origin = <<char_to_idx(l), char_to_idx(m), char_to_idx(r)>>
        /\ last = [op |-> "construct", arg |-> <<>>, err |-> ""]
        /\ enc = NoEnc
        /\ presses = 0
        /\ calls = 0

\* self._step_rotors(), the rotor movement of one keypress
StepRotors ==
    /\ status = "ok"
    /\ Len(rotors) = 3
    /\ presses < MaxSteps
    /\ rotors' = step_rotors(rotors)
    /\ last' = [op |-> "step", arg |-> <<>>, err |-> ""]
    /\ presses' = presses + 1
    /\ UNCHANGED <<status, args, plugboard, reflector, enc, origin, calls>>

SpecStep == InitStep /\ [][StepRotors]_vars

----------------------------------------------------------------------------
(* A plugboard constructed on its own from a list of letter pairs *)

\* the most pairs in a list
MaxPairs == 2

\* 'A', 'B', 'a', 'z'
PlugChars == {65, 66, 97, 122}

PairLists == SeqsUpTo({<<a, b>> : a \in PlugChars, b \in PlugChars}, MaxPairs)

\* Plugboard(pairs)
NewPlugboard(pairs) ==
    /\ status = "none"
    /\ last.op = "none"
    /\ \E pb \in {Plugboard(pairs)} :
          /\ plugboard' = IF pb.err = "" THEN pb.wiring ELSE <<>>
          /\ last' = [op |-> "plugboard", arg |-> pairs, err |-> pb.err]
    /\ UNCHANGED <<status, args, rotors, reflector, enc, origin, presses, calls>>

NewPlugboardAny == \E pairs \in PairLists : NewPlugboard(pairs)

SpecPlugboard == Init /\ [][NewPlugboardAny]_vars

----------------------------------------------------------------------------
(* One rotor on its own, in every orientation, with a signal sent through *)
(* it in both directions                                                  *)

RotorNames == {"I", "II", "III", "IV", "V"}

\* Rotor(name, p, g): the rotor is built once for its name and the window
\* and ring letters are set as Rotor.__init__ sets them
InitRotor ==
    \E name \in RotorNames :
    \E r0 \in {Rotor(name, 65, 65)} :
    \E p \in 65..90 : \E g \in 65..90 :
        /\ status = "none"
        /\ args = Cfg(<<name>>, <<p>>, <<g>>, <<>>, "")
        /\ rotors = << [r0 EXCEPT !.position = char_to_idx(p),
                                  !.ring = char_to_idx(g)] >>
        /\ plugboard = <<>>
        /\ reflector = <<>>
        /\ origin = <<char_to_idx(p)>>
        /\ last = [op |-> "rotor", arg |-> <<>>, err |-> ""]
        /\ enc = NoEnc
        /\ presses = 0
        /\ calls = 0

\* rotor.forward(i), rotor.backward of its result, rotor.backward(i) and
\* rotor.forward of its result, kept in last.arg after i
RotorSignal(i) ==
    /\ last.op = "rotor"
    /\ LET rotor == rotors[1]
           f == forward(rotor, i)
           b == backward(rotor, i)
       IN  last' = [op |-> "signal",
                    arg |-> <<i, f, backward(rotor, f), b, forward(rotor, b)>>,
                    err |-> ""]
    /\ UNCHANGED <<status, args, rotors, plugboard, reflector, enc, origin,
                   presses, calls>>

RotorSignalAny == \E i \in 0..25 : RotorSignal(i)

SpecRotor == InitRotor /\ [][RotorSignalAny]_vars

----------------------------------------------------------------------------
(* The runs of demo.py section 4: the same rotors and windows under four  *)
(* plugboards, encrypting the messages of demo.py                         *)

\* the most encrypt calls on one machine
MaxDemoCalls == 2

\* "ENIGMA"
ENIGMA == <<69, 78, 73, 71, 77, 65>>

\* [], [('E','X')], [('E','X'),('N','A')], [('E','X'),('N','A'),('I','G')]
PlugboardDemoPairs ==
    { <<>>, <<<<69, 88>>>>, <<<<69, 88>>, <<78, 65>>>>,
      <<<<69, 88>>, <<78, 65>>, <<73, 71>>>> }

PlugboardDemoConfig(pairs) ==
    Cfg(<<"I", "II", "III">>, <<65, 65, 65>>, <<65, 65, 65>>, pairs, "B")

\* "ENIGMA", "ATTACK", "HELLO WORLD", "THEQUICKBROWNFOX", "RINGSTELLUNG", "A"
DemoTexts ==
    { ENIGMA,
      <<65, 84, 84, 65, 67, 75>>,
      <<72, 69, 76, 76, 79, 32, 87, 79, 82, 76, 68>>,
      <<84, 72, 69, 81, 85, 73, 67, 75, 66, 82, 79, 87, 78, 70, 79, 88>>,
      <<82, 73, 78, 71, 83, 84, 69, 76, 76, 85, 78, 71>>,
      <<65>> }

InitDemo == \E pairs \in PlugboardDemoPairs : Constructed(PlugboardDemoConfig(pairs))

\* enigma.encrypt(msg)
EncryptDemo ==
    /\ calls < MaxDemoCalls
    /\ \E text \in DemoTexts : Encrypt(text)

SpecDemo == InitDemo /\ [][EncryptDemo]_vars

----------------------------------------------------------------------------
(* Vocabulary of the properties *)

\* the index 0..25 of a letter given in either case
LetterIndex(c) == IF c \in 97..122 THEN c - 97 ELSE c - 65

\* the alphabetic characters of a string, in order
Letters(str) == SelectSeq(str, isalpha)

\* every character of the upper-cased text that the code treats as a letter
\* is one of A-Z
LettersAreAZ(text) ==
    \A i \in 1..Len(upper(text)) :
        isalpha(upper(text)[i]) => upper(text)[i] \in 65..90

\* this step is a call of encrypt / of reset
EncryptStep == calls' = calls + 1 /\ last'.op = "encrypt"
ResetStep == calls' = calls + 1 /\ last'.op = "reset"

\* the constructor arguments of the __main__ block and of demo.py section 6
MainConfig ==
    Cfg(<<"III", "IV", "II">>, <<71, 84, 78>>, <<67, 72, 70>>,
        <<<<65, 90>>, <<66, 88>>, <<67, 87>>, <<68, 86>>, <<69, 85>>,
          <<70, 84>>, <<71, 83>>, <<72, 82>>, <<73, 81>>, <<74, 80>>>>, "B")
DoubleStepConfig ==
    Cfg(<<"I", "II", "III">>, <<65, 68, 85>>, <<65, 65, 65>>, <<>>, "B")

----------------------------------------------------------------------------
(* C1 - round trip. On a machine of three rotors, when a text whose       *)
(* letters are A-Z/a-z was encrypted from windows P and the next encrypt  *)
(* call is given the text that call returned and starts from the same     *)
(* windows P (after reset(P)), it returns the upper-cased original text,  *)
(* so every non-alphabetic character is back at its index.                *)
RoundTrip ==
    [][ ( /\ EncryptStep
          /\ Len(rotors) = 3
          /\ LettersAreAZ(enc.text)
          /\ enc'.text = enc.out
          /\ enc'.start = enc.start )
        => ( enc'.err = "" /\ enc'.out = upper(enc.text) ) ]_vars

\* the machine of the __main__ block has encrypted "AB CD" from G T N to
\* "NT AG", was reset to G T N and has encrypted "NT AG" back to "AB CD"
RoundTripDone ==
    /\ args = MainConfig
    /\ last.op = "encrypt"
    /\ enc.start = <<6, 19, 13>>
    /\ enc.text = <<78, 84, 32, 65, 71>>
    /\ enc.out = <<65, 66, 32, 67, 68>>

----------------------------------------------------------------------------
(* C2 - stepping rule. One _step_rotors call from windows (l, m, r), with *)
(* both notch predicates taken on the positions held before the call,     *)
(* leaves r' = (r+1) mod 26; m' = (m+1) mod 26 if the middle or the right *)
(* rotor is at its notch, else m; l' = (l+1) mod 26 if and only if the    *)
(* middle rotor is at its notch, else l; the left rotor's notch plays no  *)
(* part.                                                                  *)
SteppingRule ==
    [][ (presses' = presses + 1 /\ last'.op = "step")
        => LET l          == rotors[1].position
               m          == rotors[2].position
               r          == rotors[3].position
               midNotch   == ALPHABET[m + 1] = ROTOR_WIRINGS[args.rotor_names[2]][2]
               rightNotch == ALPHABET[r + 1] = ROTOR_WIRINGS[args.rotor_names[3]][2]
           IN  /\ rotors'[3].position = (r + 1) % 26
               /\ rotors'[2].position =
                      IF midNotch \/ rightNotch THEN (m + 1) % 26 ELSE m
               /\ rotors'[1].position = IF midNotch THEN (l + 1) % 26 ELSE l ]_vars

\* rotors I, II, III have stepped from A E V, both notches engaged, to B F W
BothNotchesStepped ==
    /\ last.op = "step"
    /\ args.rotor_names = <<"I", "II", "III">>
    /\ origin = <<0, 4, 21>>
    /\ Windows(rotors) = <<1, 5, 22>>

----------------------------------------------------------------------------
----------------------------------------------------------------------------
----------------------------------------------------------------------------
(* C5 - no runtime error. On a machine of three rotors encrypt never ends *)
(* in an error: every character that is alphabetic after upper-casing     *)
(* gives an output letter in A-Z.                                         *)
EncryptNeverFails ==
    (status = "ok" /\ Len(rotors) = 3 /\ last.op = "encrypt") =>
        /\ enc.err = ""
        /\ \A i \in 1..Len(upper(enc.text)) :
               isalpha(upper(enc.text)[i]) => enc.out[i] \in 65..90

----------------------------------------------------------------------------
(* C6 - three rotors. Every machine the constructor returns owns exactly  *)
(* three rotors, whatever the lengths of the lists passed in, and still   *)
(* does after any encrypt and reset calls.                                *)
AlwaysThreeRotors == status = "ok" => Len(rotors) = 3

----------------------------------------------------------------------------
(* C7 - rejected configurations. Construction ends in an error whenever   *)
(* rotor_names has fewer or more than three entries, or names a rotor     *)
(* outside the catalog I-V, or the reflector is outside the catalog B, C. *)
BadRotorsRejected ==
    ( /\ status # "none"
      /\ \/ Len(args.rotor_names) # 3
         \/ \E k \in 1..Len(args.rotor_names) :
                args.rotor_names[k] \notin {"I", "II", "III", "IV", "V"}
         \/ args.reflector \notin {"B", "C"} )
    => status = "error"

----------------------------------------------------------------------------
(* C8 - plugboard errors. Plugboard construction from a list of letter    *)
(* pairs ends in a ValueError if and only if, comparing letters without   *)
(* regard to case, some pair joins a letter to itself or some letter      *)
(* occurs in more than one pair; every other list is accepted.            *)
PairLetters(pair) == {LetterIndex(pair[1]), LetterIndex(pair[2])}

SelfPair(pairs) ==
    \E k \in 1..Len(pairs) : LetterIndex(pairs[k][1]) = LetterIndex(pairs[k][2])

LetterReused(pairs) ==
    \E j \in 1..Len(pairs) : \E k \in 1..Len(pairs) :
        j # k /\ PairLetters(pairs[j]) \cap PairLetters(pairs[k]) # {}

PlugboardErrorIff ==
    last.op = "plugboard" =>
        /\ last.err \in {"", "ValueError"}
        /\ last.err = "ValueError" <=> (SelfPair(last.arg) \/ LetterReused(last.arg))
        /\ last.err = "" => Len(plugboard) = 26

\* [('A','B'), ('z','a')] was rejected: 'a' is the letter A of the first pair
PlugboardReusedLetter ==
    /\ last.op = "plugboard"
    /\ last.arg = << <<65, 66>>, <<122, 97>> >>
    /\ last.err = "ValueError"

----------------------------------------------------------------------------
(* C9 - reset. reset(P) with three letters P on a machine of three rotors *)
(* leaves the left, middle and right positions at the indices of P[0],    *)
(* P[1], P[2] whatever they were, and leaves ring settings, wirings,      *)
(* inverse wirings, notches, plugboard and reflector as they were.        *)
ResetFrame ==
    [][ (ResetStep /\ Len(last'.arg) = 3 /\ Len(rotors) = 3)
        => /\ Len(rotors') = 3
           /\ \A k \in 1..3 :
                 /\ rotors'[k].position = LetterIndex(last'.arg[k])
                 /\ rotors'[k].ring = rotors[k].ring
                 /\ rotors'[k].wiring = rotors[k].wiring
                 /\ rotors'[k].reverse = rotors[k].reverse
                 /\ rotors'[k].notch = rotors[k].notch
                 /\ rotors'[k].name = rotors[k].name
           /\ plugboard' = plugboard
           /\ reflector' = reflector ]_vars

\* after an encryption that moved the rotors, reset(['m','c','Z']) has set
\* the windows to M C Z
ResetToMCZ ==
    /\ last.op = "reset"
    /\ last.arg = <<109, 99, 90>>
    /\ Len(rotors) = 3
    /\ Windows(rotors) = <<12, 2, 25>>
    /\ enc.err = ""
    /\ enc.end # enc.start
    /\ enc.end # Windows(rotors)

----------------------------------------------------------------------------
(* C10 - no letter encrypts to itself. On a machine of three catalog      *)
(* rotors, in every rotor state reached, the key of any letter A-Z        *)
(* returns a letter of A-Z other than that letter.                        *)
NoSelfEncryption ==
    (last.op = "encrypt" /\ Len(rotors) = 3 /\ LettersAreAZ(enc.text)) =>
        /\ enc.err = ""
        /\ Len(enc.out) = Len(upper(enc.text))
        /\ \A i \in 1..Len(enc.out) :
               isalpha(upper(enc.text)[i]) =>
                   /\ enc.out[i] \in 65..90
                   /\ enc.out[i] # upper(enc.text)[i]

\* the first key 'A' on rotors I, II, III at A A A has lit 'B'
KeyAGivesB ==
    /\ args = Cfg(<<"I", "II", "III">>, <<65, 65, 65>>, <<65, 65, 65>>, <<>>, "B")
    /\ calls = 1
    /\ enc.text = <<65>>
    /\ enc.out = <<66>>

----------------------------------------------------------------------------
\* the letter a pair list joins to the letter of index i, or that letter
\* itself when no pair holds it
Partner(pairs, i) ==
    IF \E k \in 1..Len(pairs) : LetterIndex(pairs[k][1]) = i
    THEN LET k == CHOOSE j \in 1..Len(pairs) : LetterIndex(pairs[j][1]) = i
         IN  65 + LetterIndex(pairs[k][2])
    ELSE IF \E k \in 1..Len(pairs) : LetterIndex(pairs[k][2]) = i
    THEN LET k == CHOOSE j \in 1..Len(pairs) : LetterIndex(pairs[j][2]) = i
         IN  65 + LetterIndex(pairs[k][1])
    ELSE 65 + i

(* C11 - plugboard involution. On every plugboard constructed from an     *)
(* accepted pair list, forward applied twice to a letter A-Z gives that   *)
(* letter back, forward maps A-Z onto A-Z, sends each paired letter to    *)
(* its partner and every other letter to itself.                          *)
PlugboardInvolution ==
    (last.op = "plugboard" /\ last.err = "") =>
        /\ \A c \in 65..90 :
              /\ PlugboardForward(plugboard, PlugboardForward(plugboard, c)) = c
              /\ PlugboardForward(plugboard, c) = Partner(last.arg, c - 65)
        /\ {PlugboardForward(plugboard, c) : c \in 65..90} = 65..90

\* [('a','B')] was accepted and the board now swaps A and B
PlugboardSwapsAB ==
    /\ last.op = "plugboard"
    /\ last.err = ""
    /\ last.arg = <<<<97, 66>>>>
    /\ PlugboardForward(plugboard, 65) = 66
    /\ PlugboardForward(plugboard, 66) = 65
    /\ PlugboardForward(plugboard, 67) = 67

----------------------------------------------------------------------------
(* C12 - rotor round trip. For every catalog rotor, window position and   *)
(* ring setting and every signal i of 0..25, forward(i) and backward(i)   *)
(* lie in 0..25, backward(forward(i)) = i and forward(backward(i)) = i;   *)
(* the reverse table holds at the contact of wiring[i] the letter of i.   *)
RotorRoundTrip ==
    /\ last.op \in {"rotor", "signal"} =>
          \A i \in 0..25 :
              Item(rotors[1].reverse,
                   char_to_idx(Item(rotors[1].wiring, i))) = Item(ALPHABET, i)
    /\ last.op = "signal" =>
          /\ last.arg[2] \in 0..25
          /\ last.arg[3] = last.arg[1]
          /\ last.arg[4] \in 0..25
          /\ last.arg[5] = last.arg[1]

\* rotor V at window A with ring Z, position - ring = -25, has taken
\* signal 0 forward to 24 and back to 0
RotorVNegativeOffset ==
    /\ last.op = "signal"
    /\ rotors[1].name = "V"
    /\ rotors[1].position = 0
    /\ rotors[1].ring = 25
    /\ last.arg[1] = 0
    /\ last.arg[2] = 24
    /\ last.arg[3] = 0

----------------------------------------------------------------------------
(* C13 - reflector wiring. The reflector of every machine, B or C, maps   *)
(* 0..25 onto 0..25, gives a signal back when applied twice, and sends no *)
(* signal to itself.                                                      *)
ReflectorInvolution ==
    status = "ok" =>
        /\ \A i \in 0..25 :
              /\ reflect(reflector, i) \in 0..25
              /\ reflect(reflector, reflect(reflector, i)) = i
              /\ reflect(reflector, i) # i
        /\ {reflect(reflector, i) : i \in 0..25} = 0..25

\* a key has gone through reflector C, which joins contacts 0 and 5
KeyThroughReflectorC ==
    /\ status = "ok"
    /\ args.reflector = "C"
    /\ reflector = REFLECTORS["C"]
    /\ calls = 1
    /\ enc.err = ""
    /\ reflect(reflector, 0) = 5
    /\ reflect(reflector, 5) = 0

----------------------------------------------------------------------------
\* everything of a machine but the rotor positions
KeyMaterial(rs, pb, rf) ==
    [ rotors    |-> [k \in 1..Len(rs) |->
                        [ name    |-> rs[k].name,
                          wiring  |-> rs[k].wiring,
                          reverse |-> rs[k].reverse,
                          notch   |-> rs[k].notch,
                          ring    |-> rs[k].ring ]],
      plugboard |-> pb,
      reflector |-> rf ]

(* C14 - key material is immutable. No encrypt or reset call on a         *)
(* constructed machine changes a rotor's name, wiring, inverse wiring,    *)
(* notch or ring setting, the plugboard wiring or the reflector wiring,   *)
(* so they stay as construction left them; a rotor position changes only  *)
(* in an encrypt call that presses a key or in a reset call.              *)
KeyMaterialFrozen ==
    [][ status = "ok" =>
          /\ status' = "ok"
          /\ KeyMaterial(rotors', plugboard', reflector')
                 = KeyMaterial(rotors, plugboard, reflector)
          /\ Windows(rotors') # Windows(rotors)
                 => \/ EncryptStep /\ presses' > presses
                    \/ ResetStep ]_vars

\* the machine of the __main__ block after an encrypt, reset(['m','c','Z'])
\* and one more key: rings C H F and the plug A-Z are still in place
KeyMaterialAfterThreeCalls ==
    /\ args = MainConfig
    /\ calls = 3
    /\ last.op = "encrypt"
    /\ origin = <<12, 2, 25>>
    /\ Windows(rotors) = <<12, 2, 0>>
    /\ [k \in 1..3 |-> rotors[k].ring] = <<2, 7, 5>>
    /\ plugboard[1] = 90
    /\ reflector = REFLECTORS["B"]

----------------------------------------------------------------------------
\* what the machine of arguments a returns for text from its first windows
FirstCiphertext(a, text) ==
    LET m == EnigmaMachine(a)
    IN  encrypt(m.rotors, m.plugboard, m.reflector, text).out

(* C15 - plugboard effect in demo.py section 4. With rotors I, II, III,   *)
(* windows A A A, rings A A A and reflector B, the ciphertext of "ENIGMA" *)
(* under plugboard [('E','X')] differs from the ciphertext under the      *)
(* empty plugboard at every index whose plaintext letter is E or X, that  *)
(* is at index 0.                                                         *)
PlugboardChangesE ==
    ( /\ args = PlugboardDemoConfig(<<<<69, 88>>>>)
      /\ last.op = "encrypt"
      /\ enc.text = ENIGMA
      /\ enc.start = <<0, 0, 0>> ) =>
        /\ enc.err = ""
        /\ Len(enc.out) = Len(ENIGMA)
        /\ ENIGMA[1] = 69
        /\ \A i \in 1..Len(ENIGMA) :
               ENIGMA[i] \in {69, 88} =>
                   enc.out[i] # FirstCiphertext(PlugboardDemoConfig(<<>>), ENIGMA)[i]

\* "ENIGMA" under E<->X has come out as "GQGAHW", under no plugs as "FQGAHW"
EnigmaUnderEX ==
    /\ args = PlugboardDemoConfig(<<<<69, 88>>>>)
    /\ calls = 1
    /\ enc.text = ENIGMA
    /\ enc.out = <<71, 81, 71, 65, 72, 87>>
    /\ FirstCiphertext(PlugboardDemoConfig(<<>>), ENIGMA) = <<70, 81, 71, 65, 72, 87>>

----------------------------------------------------------------------------
\* the window index at which the catalog rotor of that name is at its notch
NotchIndex(name) == ROTOR_WIRINGS[name][2] - 65

(* C16 - double step. When a keypress has carried the middle rotor onto   *)
(* its notch, the right rotor was at its notch before that keypress, and  *)
(* the next keypress advances the middle rotor again and the left rotor   *)
(* by one: the middle rotor moves on two keypresses in a row and is off   *)
(* its notch after the second.                                            *)
DoubleStep ==
    [][ ( /\ last'.op = "step"
          /\ presses = 1
          /\ presses' = 2
          /\ rotors[2].position = (origin[2] + 1) % 26
          /\ rotors[2].position = NotchIndex(args.rotor_names[2]) )
        => /\ origin[3] = NotchIndex(args.rotor_names[3])
           /\ rotors'[2].position = (origin[2] + 2) % 26
           /\ rotors'[1].position = (origin[1] + 1) % 26
           /\ rotors[1].position = origin[1]
           /\ rotors'[2].position # NotchIndex(args.rotor_names[2]) ]_vars

\* rotors I, II, III have gone from A D V over A E W to B F X
DoubleStepFromADV ==
    /\ last.op = "step"
    /\ presses = 2
    /\ args.rotor_names = <<"I", "II", "III">>
    /\ origin = <<0, 3, 21>>
    /\ Windows(rotors) = <<1, 5, 23>>

----------------------------------------------------------------------------
(* C17 - positions stay in range. On a machine constructed and reset with *)
(* letters only, every rotor position is one of 0..25 in every state, and *)
(* an encrypt call that presses one key takes the right rotor from p to   *)
(* (p + 1) mod 26, from 25 to 0, and every other rotor from p to p or to  *)
(* (p + 1) mod 26.                                                        *)
PositionsInRange ==
    /\ [](status = "ok" =>
             \A k \in 1..Len(rotors) : rotors[k].position \in 0..25)
    /\ [][ (EncryptStep /\ presses' = presses + 1 /\ Len(rotors) = 3)
           => /\ rotors'[3].position = (rotors[3].position + 1) % 26
              /\ rotors[3].position = 25 => rotors'[3].position = 0
              /\ \A k \in 1..2 :
                     rotors'[k].position \in
                         {rotors[k].position, (rotors[k].position + 1) % 26} ]_vars

\* after reset(['m','c','Z']) one key has taken the right rotor from Z to A
RightRotorWrapped ==
    /\ last.op = "encrypt"
    /\ Len(rotors) = 3
    /\ presses = 1
    /\ origin = <<12, 2, 25>>
    /\ enc.start[3] = 25
    /\ rotors[3].position = 0

----------------------------------------------------------------------------
\* the windows one keypress after windows w of the rotors named, by the
\* notches alone
NextWindows(names, w) ==
    LET midNotch   == w[2] = NotchIndex(names[2])
        rightNotch == w[3] = NotchIndex(names[3])
    IN  << IF midNotch THEN (w[1] + 1) % 26 ELSE w[1],
           IF midNotch \/ rightNotch THEN (w[2] + 1) % 26 ELSE w[2],
           (w[3] + 1) % 26 >>

\* the windows n keypresses after windows w
RECURSIVE WindowsAfter(_, _, _)
WindowsAfter(names, w, n) ==
    IF n = 0 THEN w ELSE WindowsAfter(names, NextWindows(names, w), n - 1)

(* C18 - the windows depend on the letter count alone. After an encrypt   *)
(* call on a machine of three rotors the windows are those reached from   *)
(* the starting windows by as many keypresses as the text has alphabetic  *)
(* characters, whatever the letters, ring settings, plugboard and         *)
(* reflector; the right rotor ends at (r0 + n) mod 26 for n letters.      *)
WindowsByLetterCount ==
    (last.op = "encrypt" /\ Len(rotors) = 3) =>
        LET n == Len(Letters(enc.text))
        IN  /\ enc.end = WindowsAfter(args.rotor_names, enc.start, n)
            /\ enc.end[3] = (enc.start[3] + n) % 26
            /\ Windows(rotors) = enc.end

----------------------------------------------------------------------------
(* The stepping mechanism followed over a whole period: one keypress from *)
(* every window state, and a long run of keypresses from a few            *)

\* 26 * 25 * 26 keypresses
Period == 26 * 25 * 26

\* the most keypresses of a long run: one period and two more
MaxOrbit == 16902

\* the windows a long run starts from: A A A, and the middle and the right
\* rotor both at their notches
OrbitStarts(names) ==
    { <<0, 0, 0>>, <<0, NotchIndex(names[2]), NotchIndex(names[3])>> }

\* self._step_rotors() on a long run
OrbitStep ==
    /\ status = "ok"
    /\ Len(rotors) = 3
    /\ origin \in OrbitStarts(args.rotor_names)
    /\ presses < MaxOrbit
    /\ rotors' = step_rotors(rotors)
    /\ last' = [op |-> "step", arg |-> <<>>, err |-> ""]
    /\ presses' = presses + 1
    /\ UNCHANGED <<status, args, plugboard, reflector, enc, origin, calls>>

SpecOrbit == InitStep /\ [][StepRotors \/ OrbitStep]_vars

----------------------------------------------------------------------------
\* windows with the middle rotor at its notch and the right rotor anywhere
\* but one step past its notch
Unreachable(names, w) ==
    /\ w[2] = NotchIndex(names[2])
    /\ w[3] # (NotchIndex(names[3]) + 1) % 26

(* C19 - period 16900. No keypress leads to windows with the middle rotor *)
(* at its notch and the right rotor not one step past its notch, so such  *)
(* windows are never seen again once left and the stepping map is not a   *)
(* bijection; and from the second keypress on the windows repeat with     *)
(* period exactly 26 * 25 * 26 = 16900: the windows held after two        *)
(* keypresses are held again 16900 keypresses later and at no keypress    *)
(* in between.                                                            *)
PeriodIs16900 ==
    /\ presses >= 1 => ~Unreachable(args.rotor_names, Windows(rotors))
    /\ (presses >= 1 /\ Unreachable(args.rotor_names, origin))
           => Windows(rotors) # origin
    /\ presses >= 2 =>
           ( Windows(rotors) = WindowsAfter(args.rotor_names, origin, 2)
             <=> (presses - 2) % Period = 0 )

\* rotors I, II, III started at A E V, windows no keypress leads to, are
\* after 16902 keypresses where they were after 2, at B F X
BackAtBFX ==
    /\ args.rotor_names = <<"I", "II", "III">>
    /\ origin = <<0, 4, 21>>
    /\ Unreachable(args.rotor_names, origin)
    /\ presses = Period + 2
    /\ Windows(rotors) = <<1, 5, 23>>

====
